---- MODULE Spec2Model ----
(***************************************************************************)
(* Model of the OpenCBP demand-response strategy engine                    *)
(* (src/demand_response.c) and of the RTOS tasks that share one            *)
(* DemandResponseStrategy instance (src/sunlight_lut.c).                   *)
(*                                                                         *)
(* Numbers.  The C code computes in IEEE doubles; the model computes in    *)
(* fixed point, rounding every division to the nearest unit:               *)
(*   state of charge, depth, efficiency, alpha, beta, markups, hours of a  *)
(*     time window ............................ thousandths (0.5 = 500)    *)
(*   energy and capacity ...................... Wh          (6.5 kWh=6500) *)
(*   prices and costs ......................... 1e-4 $/kWh  (0.29 = 2900)  *)
(*   values of exp() and pow() ................ 1e-4        (1.0 = 10000)  *)
(*   grid demand .............................. kW                         *)
(*   cycle_count .............................. the uint32_t itself        *)
(***************************************************************************)
EXTENDS Integers, Sequences, FiniteSets, TLC

VARIABLES
    dr_strategy,    \* the DemandResponseStrategy instance (sunlight_lut.c:19)
    last,           \* the call or statement that acted last, with its inputs and outputs
    calls,          \* number of library calls made so far (bounded by MaxCalls)
    market,         \* price_forecast, grid_demand_forecast, num_competitors (sunlight_lut.c:22-24)
    dr_status,      \* register 0x220 of the battery system behind ctx: DR events enabled (> 0) or not
    pc,             \* where main and each RTOS task stand
    spoof,          \* locals of SpoofSOC
    fdr,            \* locals of FastDRDispatch and of its calculate_fast_dr_bid call
    cbp,            \* locals of CapacityBidding and of its calculate_cbp_strategy call
    polls           \* number of SpoofSOC loop iterations so far (bounded by MaxPolls)

libVars == <<last, calls>>
taskVars == <<market, dr_status, pc, spoof, fdr, cbp, polls>>
vars == <<dr_strategy, last, calls, market, dr_status, pc, spoof, fdr, cbp, polls>>

(***************************************************************************)
(* Bounds of the model.                                                    *)
(***************************************************************************)
MaxCalls == 3
MaxPolls == 6
ExpTerms == 18

(***************************************************************************)
(* Fixed-point helpers standing for double arithmetic.                     *)
(***************************************************************************)
\* a / b in doubles, rounded to the nearest unit (b > 0)
RDiv(a, b) == (2 * a + b) \div (2 * b)

fabs(x) == IF x < 0 THEN -x ELSE x

fmin(a, b) == IF a < b THEN a ELSE b

fmax(a, b) == IF a > b THEN a ELSE b

RECURSIVE ExpSeries(_, _, _, _)
ExpSeries(x, n, term, acc) ==
    IF n > ExpTerms THEN acc
    ELSE LET t == RDiv(term * x, 1000 * n)
         IN  ExpSeries(x, n + 1, t, acc + t)

\* exp(x): x in thousandths, result in 1e-4 (Taylor series about 0)
exp(x) == ExpSeries(x, 1, 10000, 10000)

RECURSIVE pow(_, _)
\* pow(base, i): base in thousandths, result in 1e-4
pow(base, i) == IF i = 0 THEN 10000 ELSE RDiv(pow(base, i - 1) * base, 1000)

\* (uint32_t)(x): conversion of a double (here in thousandths) to the
\* unsigned counter truncates toward zero.  Values at or below -1.0 are
\* out of range for the conversion and are not produced within the bounds.
ToUint32(x) == IF x >= 0 THEN x \div 1000 ELSE 0

(***************************************************************************)
(* src/demand_response.c                                                   *)
(***************************************************************************)
\* DemandResponseStrategy_init: the instance after construction.  The cycle
\* array is modelled by the sequence of the slots written so far; slot i of
\* the C array is element i + 1.  The timestamp of a record is not modelled
\* (no code reads it).  cycles_null tells whether the cycles pointer is NULL;
\* the malloc of line 30 is taken to succeed here (Construct lets it fail).
DemandResponseStrategy_init(battery_capacity, efficiency) ==
    [ battery_capacity  |-> battery_capacity,
      efficiency        |-> efficiency,
      min_soc           |-> 100,
      max_soc           |-> 900,
      current_soc       |-> 500,
      cycle_count       |-> 0,
      replacement_cost  |-> 4000,
      k_delta_e1        |-> 693,
      k_delta_e2        |-> 3310,
      cycles_to_eol     |-> 5000,
      cycle_array_size  |-> 1000,
      cycles            |-> << >>,
      cycles_null       |-> FALSE,
      cycle_count_index |-> 0,
      risk_factor       |-> 500,
      alpha             |-> 300,
      beta              |-> 200,
      max_grid_demand   |-> 50000 ]

\* calculate_degradation_cost.  stress_factor in thousandths, result in
\* 1e-4 $/kWh.  The code divides cycles_to_eol by the stress factor and then
\* 1.0 by the quotient; in doubles that is stress / cycles_to_eol, also for a
\* stress of 0 (5000/0 = inf, 1/inf = 0) and for a negative one.
\* replacement_cost is in $ and battery_capacity in Wh: cost_per_kwh is in
\* cents per kWh, and the products stay within 32 bits.
calculate_degradation_cost(strategy, depth_of_discharge) ==
    LET stress_factor ==
            RDiv(RDiv(strategy.k_delta_e1 * depth_of_discharge, 1000)
                   * exp(RDiv(strategy.k_delta_e2 * depth_of_discharge, 1000)),
                 10000)
        cost_per_kwh == RDiv(strategy.replacement_cost * 100000,
                             strategy.battery_capacity)
    IN  RDiv(RDiv(cost_per_kwh * stress_factor, strategy.cycles_to_eol)
               * depth_of_discharge,
             10000)

\* cycles[index] = record: a write into slot `index` of the C array
ArrayPut(cycles, index, record) ==
    [i \in 1 .. fmax(Len(cycles), index + 1) |->
        IF i = index + 1 THEN record ELSE cycles[i]]

\* add_rainflow_cycle with the counter assigned instead of accumulated
add_rainflow_cycle_assign(strategy, depth, mean_soc, temperature) ==
    [strategy EXCEPT
        !.cycles            = ArrayPut(@, strategy.cycle_count_index,
                                       [depth |-> depth, mean_soc |-> mean_soc,
                                        temperature |-> temperature]),
        !.cycle_count_index = @ + 1,
        !.cycle_count       = ToUint32(depth)]

\* add_rainflow_cycle, lines 60-71: grow the array when it is full, then
\* store the record in slot cycle_count_index
add_rainflow_cycle_store(strategy, depth, mean_soc, temperature) ==
    LET size == IF strategy.cycle_count_index >= strategy.cycle_array_size
                THEN strategy.cycle_array_size * 2
                ELSE strategy.cycle_array_size
        record == [depth |-> depth, mean_soc |-> mean_soc,
                   temperature |-> temperature]
    IN  [strategy EXCEPT
            !.cycle_array_size = size,
            !.cycles           = ArrayPut(@, strategy.cycle_count_index, record)]

\* add_rainflow_cycle, lines 73-76: advance the index, then add the depth to
\* the uint32_t counter (the sum is computed in double and converted back)
add_rainflow_cycle_count(strategy, depth) ==
    [strategy EXCEPT
        !.cycle_count_index = @ + 1,
        !.cycle_count       = ToUint32(@ * 1000 + depth)]

\* add_rainflow_cycle, as one call
add_rainflow_cycle(strategy, depth, mean_soc, temperature) ==
    add_rainflow_cycle_count(
        add_rainflow_cycle_store(strategy, depth, mean_soc, temperature), depth)

\* _calculate_marginal_cost: 1e-4 $/kWh
CalculateMarginalCost(strategy, time_of_day, depth_of_discharge, opp_cost) ==
    LET base_cost == IF time_of_day >= 6 /\ time_of_day <= 18 THEN 2900 ELSE 1000
        degradation_cost == calculate_degradation_cost(strategy, depth_of_discharge)
        risk_premium == strategy.risk_factor
    IN  RDiv((base_cost + degradation_cost + opp_cost + risk_premium) * 1000,
             strategy.efficiency)

\* find_nash_equilibrium_price
find_nash_equilibrium_price(strategy, market_price, grid_demand, num_competitors) ==
    LET demand_factor == fmin(RDiv(grid_demand * 1000, strategy.max_grid_demand), 1500)
        markup == RDiv(strategy.alpha
                         * RDiv(demand_factor * 1000,
                                num_competitors * strategy.beta + 1000),
                       1000)
    IN  RDiv(market_price * (1000 + markup), 1000)

\* pow(discount_factor, i) for the 24 hours of a forecast
DiscountTable == [i \in 0 .. 23 |-> pow(900, i)]

RECURSIVE MaxExpectedValue(_, _, _, _)
\* the loop of calculate_opportunity_cost, from hour i on
MaxExpectedValue(price_forecast, forecast_hours, i, max_expected_value) ==
    IF i >= forecast_hours THEN max_expected_value
    ELSE LET expected_value == RDiv(price_forecast[i] * DiscountTable[i], 10000)
         IN  MaxExpectedValue(price_forecast, forecast_hours, i + 1,
                              IF expected_value > max_expected_value
                              THEN expected_value ELSE max_expected_value)

\* calculate_opportunity_cost (price_forecast is never NULL in the callers)
calculate_opportunity_cost(price_forecast, forecast_hours) ==
    IF forecast_hours <= 0 THEN 0
    ELSE RDiv(MaxExpectedValue(price_forecast, forecast_hours, 0, 0) * 5, 10)

\* calculate_fast_dr_bid accepting a bid at break-even (>= for >)
calculate_fast_dr_bid_ge(strategy, market_price, grid_demand, time_window, hour_of_day) ==
    LET available_capacity ==
            RDiv((strategy.current_soc - strategy.min_soc) * strategy.battery_capacity,
                 1000)
        depth_of_discharge == RDiv(available_capacity * 1000, strategy.battery_capacity)
        price_forecast == [i \in 0 .. 23 |-> RDiv(market_price * (100 + 5 * i), 100)]
        marginal_cost ==
            CalculateMarginalCost(strategy, hour_of_day, depth_of_discharge,
                                  calculate_opportunity_cost(price_forecast, 24))
        nash_price == find_nash_equilibrium_price(strategy, market_price, grid_demand, 10)
        max_power ==
            fmin(available_capacity,
                 RDiv(RDiv(strategy.battery_capacity * time_window, 1000)
                        * strategy.efficiency, 1000))
    IN  [ marginal_cost |-> marginal_cost,
          nash_price    |-> nash_price,
          bid_capacity  |-> IF nash_price >= marginal_cost THEN max_power ELSE 0,
          bid_price     |-> IF nash_price >= marginal_cost THEN nash_price ELSE 0 ]

\* calculate_fast_dr_bid offering the whole time window (no fmin with the
\* available capacity at line 166)
calculate_fast_dr_bid_window(strategy, market_price, grid_demand, time_window, hour_of_day) ==
    LET available_capacity ==
            RDiv((strategy.current_soc - strategy.min_soc) * strategy.battery_capacity,
                 1000)
        depth_of_discharge == RDiv(available_capacity * 1000, strategy.battery_capacity)
        price_forecast == [i \in 0 .. 23 |-> RDiv(market_price * (100 + 5 * i), 100)]
        marginal_cost ==
            CalculateMarginalCost(strategy, hour_of_day, depth_of_discharge,
                                  calculate_opportunity_cost(price_forecast, 24))
        nash_price == find_nash_equilibrium_price(strategy, market_price, grid_demand, 10)
        max_power ==
            RDiv(RDiv(strategy.battery_capacity * time_window, 1000)
                   * strategy.efficiency, 1000)
    IN  [ marginal_cost |-> marginal_cost,
          nash_price    |-> nash_price,
          bid_capacity  |-> IF nash_price > marginal_cost THEN max_power ELSE 0,
          bid_price     |-> IF nash_price > marginal_cost THEN nash_price ELSE 0 ]

\* calculate_fast_dr_bid; hour_of_day is what localtime() returns at line 154
calculate_fast_dr_bid(strategy, market_price, grid_demand, time_window, hour_of_day) ==
    LET available_capacity ==
            RDiv((strategy.current_soc - strategy.min_soc) * strategy.battery_capacity,
                 1000)
        depth_of_discharge == RDiv(available_capacity * 1000, strategy.battery_capacity)
        price_forecast == [i \in 0 .. 23 |-> RDiv(market_price * (100 + 5 * i), 100)]
        opp_cost == calculate_opportunity_cost(price_forecast, 24)
        marginal_cost ==
            CalculateMarginalCost(strategy, hour_of_day, depth_of_discharge, opp_cost)
        nash_price == find_nash_equilibrium_price(strategy, market_price, grid_demand, 10)
        max_power ==
            fmin(available_capacity,
                 RDiv(RDiv(strategy.battery_capacity * time_window, 1000)
                        * strategy.efficiency, 1000))
    IN  [ marginal_cost |-> marginal_cost,
          nash_price    |-> nash_price,
          bid_capacity  |-> IF nash_price > marginal_cost THEN max_power ELSE 0,
          bid_price     |-> IF nash_price > marginal_cost THEN nash_price ELSE 0 ]

RECURSIVE SumTo(_, _)
\* f[0] + ... + f[n-1]
SumTo(f, n) == IF n <= 0 THEN 0 ELSE f[n - 1] + SumTo(f, n - 1)

\* calculate_capacity_allocation normalising inside the first loop, by the
\* total accumulated so far
calculate_capacity_allocation_running(day_ahead_prices, peak_hours, num_hours) ==
    LET exp_factor ==
            [h \in 0 .. num_hours - 1 |->
                LET expected_revenue ==
                        RDiv(day_ahead_prices[h]
                               * (IF peak_hours[h] # 0 THEN 12 ELSE 10), 10)
                IN  exp(RDiv(2 * expected_revenue, 10))]
    IN  [h \in 0 .. num_hours - 1 |->
            RDiv(exp_factor[h] * 10000, SumTo(exp_factor, h + 1))]

\* calculate_capacity_allocation: capacity_factors in 1e-4
calculate_capacity_allocation(day_ahead_prices, peak_hours, num_hours) ==
    LET exp_factor ==
            [h \in 0 .. num_hours - 1 |->
                LET expected_revenue ==
                        RDiv(day_ahead_prices[h]
                               * (IF peak_hours[h] # 0 THEN 12 ELSE 10), 10)
                IN  exp(RDiv(2 * expected_revenue, 10))]
        total_exp_factor == SumTo(exp_factor, num_hours)
    IN  [h \in 0 .. num_hours - 1 |-> RDiv(exp_factor[h] * 10000, total_exp_factor)]

\* calculate_cbp_strategy gating the capacity on profitability, as Fast DR does
CbpBidsGated(strategy, day_ahead_prices, expected_peak_hours, num_hours, capacity_factors) ==
    LET available_energy ==
            RDiv(strategy.battery_capacity * (strategy.max_soc - strategy.min_soc),
                 1000)
        hour_capacity(hour) == RDiv(available_energy * capacity_factors[hour], 10000)
        base_cost(hour) ==
            CalculateMarginalCost(
                strategy, hour,
                RDiv(hour_capacity(hour) * 1000, strategy.battery_capacity),
                calculate_opportunity_cost(
                    [i \in 0 .. 23 |-> day_ahead_prices[(hour + i) % 24]], 24))
        bid_price(hour) ==
            LET is_peak_hour == expected_peak_hours[hour] # 0
                markup == IF is_peak_hour THEN 150 ELSE 50
                cost_markup == IF is_peak_hour THEN 200 ELSE 100
            IN  fmax(RDiv(day_ahead_prices[hour] * (1000 + markup), 1000),
                     RDiv(base_cost(hour) * (1000 + cost_markup), 1000))
    IN  [ bid_capacities |-> [hour \in 0 .. num_hours - 1 |->
                                 IF day_ahead_prices[hour] > base_cost(hour)
                                 THEN hour_capacity(hour) ELSE 0],
          bid_prices     |-> [hour \in 0 .. num_hours - 1 |-> bid_price(hour)],
          base_costs     |-> [hour \in 0 .. num_hours - 1 |-> base_cost(hour)] ]

\* calculate_cbp_strategy without the cost floor of line 239
CbpBidsNoFloor(strategy, day_ahead_prices, expected_peak_hours, num_hours, capacity_factors) ==
    LET available_energy ==
            RDiv(strategy.battery_capacity * (strategy.max_soc - strategy.min_soc),
                 1000)
        hour_capacity(hour) == RDiv(available_energy * capacity_factors[hour], 10000)
        base_cost(hour) ==
            CalculateMarginalCost(
                strategy, hour,
                RDiv(hour_capacity(hour) * 1000, strategy.battery_capacity),
                calculate_opportunity_cost(
                    [i \in 0 .. 23 |-> day_ahead_prices[(hour + i) % 24]], 24))
        bid_price(hour) ==
            RDiv(day_ahead_prices[hour]
                   * (1000 + (IF expected_peak_hours[hour] # 0 THEN 150 ELSE 50)),
                 1000)
    IN  [ bid_capacities |-> [hour \in 0 .. num_hours - 1 |-> hour_capacity(hour)],
          bid_prices     |-> [hour \in 0 .. num_hours - 1 |-> bid_price(hour)],
          base_costs     |-> [hour \in 0 .. num_hours - 1 |-> base_cost(hour)] ]

\* calculate_cbp_strategy taking the energy stored above min_soc, as
\* calculate_fast_dr_bid does, for the energy to allocate
CbpBidsFromSoc(strategy, day_ahead_prices, expected_peak_hours, num_hours, capacity_factors) ==
    LET available_energy ==
            RDiv(strategy.battery_capacity * (strategy.current_soc - strategy.min_soc),
                 1000)
        hour_capacity(hour) == RDiv(available_energy * capacity_factors[hour], 10000)
        base_cost(hour) ==
            CalculateMarginalCost(
                strategy, hour,
                RDiv(hour_capacity(hour) * 1000, strategy.battery_capacity),
                calculate_opportunity_cost(
                    [i \in 0 .. 23 |-> day_ahead_prices[(hour + i) % 24]], 24))
        bid_price(hour) ==
            LET is_peak_hour == expected_peak_hours[hour] # 0
                markup == IF is_peak_hour THEN 150 ELSE 50
                cost_markup == IF is_peak_hour THEN 200 ELSE 100
            IN  fmax(RDiv(day_ahead_prices[hour] * (1000 + markup), 1000),
                     RDiv(base_cost(hour) * (1000 + cost_markup), 1000))
    IN  [ bid_capacities |-> [hour \in 0 .. num_hours - 1 |-> hour_capacity(hour)],
          bid_prices     |-> [hour \in 0 .. num_hours - 1 |-> bid_price(hour)],
          base_costs     |-> [hour \in 0 .. num_hours - 1 |-> base_cost(hour)] ]

\* calculate_cbp_strategy, lines 208-240: the bids, given the capacity factors.
\* base_costs holds the local base_cost (line 229) of each hour.
CbpBids(strategy, day_ahead_prices, expected_peak_hours, num_hours, capacity_factors) ==
    LET available_energy ==
            RDiv(strategy.battery_capacity * (strategy.max_soc - strategy.min_soc),
                 1000)
        hour_capacity(hour) == RDiv(available_energy * capacity_factors[hour], 10000)
        base_cost(hour) ==
            LET price_forecast ==
                    [i \in 0 .. 23 |-> day_ahead_prices[(hour + i) % 24]]
                opp_cost == calculate_opportunity_cost(price_forecast, 24)
                depth_of_discharge ==
                    RDiv(hour_capacity(hour) * 1000, strategy.battery_capacity)
            IN  CalculateMarginalCost(strategy, hour, depth_of_discharge, opp_cost)
        bid_price(hour) ==
            LET is_peak_hour == expected_peak_hours[hour] # 0
                markup == IF is_peak_hour THEN 150 ELSE 50
                cost_markup == IF is_peak_hour THEN 200 ELSE 100
            IN  fmax(RDiv(day_ahead_prices[hour] * (1000 + markup), 1000),
                     RDiv(base_cost(hour) * (1000 + cost_markup), 1000))
    IN  [ bid_capacities |-> [hour \in 0 .. num_hours - 1 |-> hour_capacity(hour)],
          bid_prices     |-> [hour \in 0 .. num_hours - 1 |-> bid_price(hour)],
          base_costs     |-> [hour \in 0 .. num_hours - 1 |-> base_cost(hour)] ]

\* calculate_cbp_strategy
calculate_cbp_strategy(strategy, day_ahead_prices, expected_peak_hours, num_hours) ==
    CbpBids(strategy, day_ahead_prices, expected_peak_hours, num_hours,
            calculate_capacity_allocation(day_ahead_prices, expected_peak_hours,
                                          num_hours))

\* update_state_of_charge without the clamp of line 252
update_state_of_charge_unclamped(strategy, energy_delivered_kwh) ==
    LET prev_soc == strategy.current_soc
        current_soc == prev_soc - RDiv(energy_delivered_kwh * 1000,
                                       strategy.battery_capacity)
        depth == fabs(prev_soc - current_soc)
        moved == [strategy EXCEPT !.current_soc = current_soc]
    IN  IF depth > 10
        THEN add_rainflow_cycle(moved, depth, RDiv(prev_soc + current_soc, 2), 250)
        ELSE moved

\* update_state_of_charge recording the requested movement instead of the
\* one applied after the clamp
update_state_of_charge_requested(strategy, energy_delivered_kwh) ==
    LET prev_soc == strategy.current_soc
        requested == prev_soc - RDiv(energy_delivered_kwh * 1000,
                                     strategy.battery_capacity)
        current_soc == fmax(strategy.min_soc, fmin(strategy.max_soc, requested))
        depth == fabs(prev_soc - requested)
        moved == [strategy EXCEPT !.current_soc = current_soc]
    IN  IF depth > 10
        THEN add_rainflow_cycle(moved, depth, RDiv(prev_soc + requested, 2), 250)
        ELSE moved

\* update_state_of_charge, lines 244-267
update_state_of_charge(strategy, energy_delivered_kwh) ==
    LET prev_soc == strategy.current_soc
        current_soc ==
            fmax(strategy.min_soc,
                 fmin(strategy.max_soc,
                      prev_soc - RDiv(energy_delivered_kwh * 1000,
                                      strategy.battery_capacity)))
        depth == fabs(prev_soc - current_soc)
        mean_soc == RDiv(prev_soc + current_soc, 2)
        temperature == 250
        moved == [strategy EXCEPT !.current_soc = current_soc]
    IN  IF depth > 10
        THEN add_rainflow_cycle(moved, depth, mean_soc, temperature)
        ELSE moved

(***************************************************************************)
(* The library driven by a caller: any sequence of calls of its public     *)
(* functions on the instance built by DemandResponseStrategy_init(6.5,     *)
(* 0.95), with arguments from the sets below.                              *)
(***************************************************************************)
\* energy_delivered_kwh, in Wh: over-charge, charge, sub-threshold moves in
\* both directions, a move of exactly 0.01, discharge, over-discharge
EnergyValues == {-10000, -2600, -50, 50, 65, 2600, 10000}

\* (depth, mean_soc, temperature) of a direct add_rainflow_cycle call
CycleValues == {<<400, 500, 250>>, <<1000, 500, 300>>, <<5, 500, 250>>}

\* market_price (1e-4 $/kWh), grid_demand (kW), time_window (thousandths of
\* an hour) of a calculate_fast_dr_bid call
\* 3826 is the break-even price of the instance as constructed (SOC 0.5) at
\* night with a demand of 40000 kW: there the Nash price equals the marginal cost
MarketPrices == {500, 3826, 5000}
GridDemands == {100, 40000}
TimeWindows == {250, 1000}

\* what the wall clock can show when calculate_fast_dr_bid reads it
ClockHours == {12, 20}

\* day-ahead price vectors and peak masks of a calculate_cbp_strategy call
FlatPrices == [h \in 0 .. 23 |-> 1000]
PeakPrices == [h \in 0 .. 23 |-> IF h >= 13 /\ h <= 18 THEN 4000 ELSE 1000]
NoPeaks == [h \in 0 .. 23 |-> 0]
AfternoonPeaks == [h \in 0 .. 23 |-> IF h >= 13 /\ h <= 18 THEN 1 ELSE 0]
DayAheadPrices == {FlatPrices, PeakPrices}
PeakMasks == {NoPeaks, AfternoonPeaks}

NoCall == [op |-> "init"]

\* the globals of sunlight_lut.c with their initialisers, the task locals
\* with theirs
TaskInit ==
    /\ market = [price_forecast       |-> [h \in 0 .. 23 |-> 0],
                 grid_demand_forecast |-> [h \in 0 .. 23 |-> 0],
                 num_competitors      |-> 10]
    /\ dr_status = 0
    /\ pc = [main |-> "fetch", SpoofSOC |-> "poll", FastDRDispatch |-> "start",
             CapacityBidding |-> "wait", MarketDataUpdate |-> "wait"]
    /\ spoof = [previousSOC |-> 500, socReadings |-> [i \in 0 .. 4 |-> 500],
                filterIndex |-> 0, batteryTemp |-> 0, filteredSOC |-> 0,
                socChange |-> 0]
    /\ fdr = [isDemandResponseActive |-> FALSE, current_market_price |-> 0,
              current_grid_demand |-> 0, current_soc |-> 0,
              bid_capacity |-> 0, bid_price |-> 0]
    /\ cbp = [expected_peak_hours |-> [h \in 0 .. 23 |-> 0],
              bid_capacities |-> [h \in 0 .. 23 |-> 0],
              bid_prices |-> [h \in 0 .. 23 |-> 0],
              posted_hours |-> {}]
    /\ polls = 0

\* The state when initSystem has run DemandResponseStrategy_init (line 470)
Init ==
    /\ dr_strategy = DemandResponseStrategy_init(6500, 950)
    /\ last = NoCall
    /\ calls = 0
    /\ TaskInit

UpdateSoc(energy_delivered_kwh) ==
    /\ calls < MaxCalls
    /\ dr_strategy' = update_state_of_charge(dr_strategy, energy_delivered_kwh)
    /\ last' = [op |-> "update_state_of_charge", energy |-> energy_delivered_kwh]
    /\ calls' = calls + 1
    /\ UNCHANGED taskVars

AddCycle(depth, mean_soc, temperature) ==
    /\ calls < MaxCalls
    /\ dr_strategy' = add_rainflow_cycle(dr_strategy, depth, mean_soc, temperature)
    /\ last' = [op |-> "add_rainflow_cycle", depth |-> depth]
    /\ calls' = calls + 1
    /\ UNCHANGED taskVars

FastDrBid(market_price, grid_demand, time_window, hour_of_day) ==
    /\ calls < MaxCalls
    /\ last' = [op |-> "calculate_fast_dr_bid",
                args |-> <<market_price, grid_demand, time_window>>,
                hour_of_day |-> hour_of_day,
                out |-> calculate_fast_dr_bid(dr_strategy, market_price, grid_demand,
                                              time_window, hour_of_day)]
    /\ calls' = calls + 1
    /\ UNCHANGED <<dr_strategy, taskVars>>

CbpStrategy(day_ahead_prices, expected_peak_hours) ==
    /\ calls < MaxCalls
    /\ last' = [op |-> "calculate_cbp_strategy",
                args |-> <<day_ahead_prices, expected_peak_hours>>,
                out |-> calculate_cbp_strategy(dr_strategy, day_ahead_prices,
                                               expected_peak_hours, 24)]
    /\ calls' = calls + 1
    /\ UNCHANGED <<dr_strategy, taskVars>>

Next ==
    \/ \E e \in EnergyValues : UpdateSoc(e)
    \/ \E c \in CycleValues : AddCycle(c[1], c[2], c[3])
    \/ \E p \in MarketPrices, d \in GridDemands, w \in TimeWindows, h \in ClockHours :
          FastDrBid(p, d, w, h)
    \/ \E p \in DayAheadPrices, m \in PeakMasks : CbpStrategy(p, m)

Spec == Init /\ [][Next]_vars

(***************************************************************************)
(* Properties of the library (specification Spec)                          *)
(***************************************************************************)
RECURSIVE SumDepths(_, _)
\* the sum of the depths of the first n records of the cycle log
SumDepths(cycles, n) == IF n <= 0 THEN 0 ELSE cycles[n].depth + SumDepths(cycles, n - 1)

IsFastDr == last.op = "calculate_fast_dr_bid"

\* C1: after every update_state_of_charge call, whatever the energy,
\* min_soc <= current_soc <= max_soc.
C1_SocWithinBounds ==
    last.op = "update_state_of_charge" =>
        /\ dr_strategy.min_soc <= dr_strategy.current_soc
        /\ dr_strategy.current_soc <= dr_strategy.max_soc

\* an over-discharge (10 kWh from a 6.5 kWh battery) was clamped to min_soc
C1_Witness ==
    /\ last.op = "update_state_of_charge"
    /\ last.energy = 10000
    /\ dr_strategy.current_soc = dr_strategy.min_soc

\* C2: equivalent_full_cycles (cycle_count) equals the sum of the depths of
\* the recorded cycles.
C2_CountIsSumOfDepths ==
    dr_strategy.cycle_count * 1000
        = SumDepths(dr_strategy.cycles, dr_strategy.cycle_count_index)

\* C3: an update_state_of_charge call never decreases cycle_count.
C3_CountNeverDecreases ==
    [][last'.op = "update_state_of_charge"
        => dr_strategy'.cycle_count >= dr_strategy.cycle_count]_vars

\* update_state_of_charge recorded a cycle on top of a non-zero counter
C3_Witness ==
    /\ last.op = "update_state_of_charge"
    /\ dr_strategy.cycle_count_index >= 2
    /\ dr_strategy.cycle_count >= 1
    /\ dr_strategy.cycles[dr_strategy.cycle_count_index].depth < 1000

\* C4: every cycle in the cycle log has depth > 0.01; an update_state_of_charge
\* call that moves the SOC by 0.01 or less appends nothing and leaves
\* cycle_count unchanged, and still moves current_soc to the clamped new value.
C4_LoggedCyclesAboveThreshold ==
    [][/\ \A i \in 1 .. dr_strategy'.cycle_count_index :
              dr_strategy'.cycles[i].depth > 10
       /\ last'.op = "update_state_of_charge" =>
            LET old == dr_strategy
                new == dr_strategy'
                target == old.current_soc
                            - RDiv(last'.energy * 1000, old.battery_capacity)
            IN  /\ new.current_soc = fmax(old.min_soc, fmin(old.max_soc, target))
                /\ fabs(new.current_soc - old.current_soc) <= 10
                      => /\ new.cycles = old.cycles
                         /\ new.cycle_count_index = old.cycle_count_index
                         /\ new.cycle_count = old.cycle_count]_vars

\* C5: a Fast DR bid is (0, 0) or has price >= marginal_cost > 0, and a Nash
\* price equal to the marginal cost is rejected.
C5_BidCoversMarginalCost ==
    IsFastDr =>
        /\ \/ last.out.bid_capacity = 0 /\ last.out.bid_price = 0
           \/ /\ last.out.bid_price >= last.out.marginal_cost
              /\ last.out.marginal_cost > 0
        /\ last.out.nash_price = last.out.marginal_cost
              => last.out.bid_capacity = 0 /\ last.out.bid_price = 0

\* a call at break-even: the Nash price equals the marginal cost
C5_Witness ==
    /\ IsFastDr
    /\ last.out.nash_price = last.out.marginal_cost
    /\ last.out.marginal_cost > 0

\* C6: the capacity of a Fast DR bid is 0 exactly when the profitability
\* test (nash > marginal cost) rejected the bid.
C6_ZeroCapacityIffRejected ==
    IsFastDr =>
        (last.out.bid_capacity = 0
            <=> ~(last.out.nash_price > last.out.marginal_cost))

\* C8: two successive invocations of a bidding function with the same
\* arguments on the same strategy state return the same bids.
C8_BidsDeterministic ==
    [][(/\ last.op = last'.op
        /\ last.op \in {"calculate_fast_dr_bid", "calculate_cbp_strategy"}
        /\ last.args = last'.args
        /\ dr_strategy' = dr_strategy)
        => IF last.op = "calculate_fast_dr_bid"
           THEN /\ last'.out.bid_capacity = last.out.bid_capacity
                /\ last'.out.bid_price = last.out.bid_price
           ELSE last'.out = last.out]_vars

IsCbp == last.op = "calculate_cbp_strategy"

\* C15: add_rainflow_cycle with depth <= 0.01 appends nothing and leaves
\* cycle_count unchanged; with depth > 0.01 it appends exactly one record and
\* adds depth to the counter.
C15_AddCycleThreshold ==
    [][last'.op = "add_rainflow_cycle" =>
        LET old == dr_strategy
            new == dr_strategy'
        IN  IF last'.depth <= 10
            THEN /\ new.cycles = old.cycles
                 /\ new.cycle_count_index = old.cycle_count_index
                 /\ new.cycle_count = old.cycle_count
            ELSE /\ new.cycle_count_index = old.cycle_count_index + 1
                 /\ new.cycles[new.cycle_count_index].depth = last'.depth
                 /\ new.cycle_count * 1000 = old.cycle_count * 1000 + last'.depth]_vars

\* C16: calculate_cbp_strategy does not gate on profitability: every hour h
\* gets bid capacity battery_capacity * (max_soc - min_soc) * weights[h], and
\* that is > 0.
C16_CbpEveryHourAllocated ==
    IsCbp =>
        LET weights == calculate_capacity_allocation(last.args[1], last.args[2], 24)
            avail_energy ==
                RDiv(dr_strategy.battery_capacity
                       * (dr_strategy.max_soc - dr_strategy.min_soc), 1000)
        IN  \A h \in 0 .. 23 :
                /\ last.out.bid_capacities[h] = RDiv(avail_energy * weights[h], 10000)
                /\ last.out.bid_capacities[h] > 0

\* a CBP call with an hour whose day-ahead price is below its marginal cost
\* and that still gets capacity
C16_Witness ==
    /\ IsCbp
    /\ \E h \in 0 .. 23 :
          /\ last.args[1][h] < last.out.base_costs[h]
          /\ last.out.bid_capacities[h] > 0

\* C19: an accepted Fast DR bid has capacity
\* min((current_soc - min_soc) * capacity, capacity * time_window * efficiency)
\* and the Nash price as price; the capacity never exceeds the energy stored
\* above min_soc.
C19_AcceptedBidCapacity ==
    (IsFastDr /\ last.out.nash_price > last.out.marginal_cost) =>
        LET available ==
                RDiv((dr_strategy.current_soc - dr_strategy.min_soc)
                       * dr_strategy.battery_capacity, 1000)
            window ==
                RDiv(RDiv(dr_strategy.battery_capacity * last.args[3], 1000)
                       * dr_strategy.efficiency, 1000)
        IN  /\ last.out.bid_capacity = fmin(available, window)
            /\ last.out.bid_price = last.out.nash_price
            /\ last.out.bid_capacity <= available

\* an accepted bid limited by the stored energy, not by the time window
C19_Witness ==
    /\ IsFastDr
    /\ last.out.nash_price > last.out.marginal_cost
    /\ last.out.bid_capacity > 0
    /\ last.out.bid_capacity
          < RDiv(RDiv(dr_strategy.battery_capacity * last.args[3], 1000)
                   * dr_strategy.efficiency, 1000)

(***************************************************************************)
(* src/sunlight_lut.c: initSystem and the four RTOS tasks it creates, all   *)
(* of priority 1, sharing dr_strategy and the market data.  The scheduler   *)
(* may switch tasks between any two statements; a step of the model is a    *)
(* run of statements of one task.  time() and localtime() are read from the *)
(* environment.  A call of calculate_fast_dr_bid or calculate_cbp_strategy  *)
(* is one step: of the fields they read, only current_soc is ever written   *)
(* after initSystem, and it is read once (demand_response.c:136).           *)
(***************************************************************************)
\* what the BMS reports in input register 0x208 (SOC in percent): an empty battery
SocReadings == {0}

\* what is taken as battery temperature (0.1 C): register 0x209 reports 25.0 C,
\* which is also the default taken when the read fails
BmsTemperatures == {250}

HighPrices == [h \in 0 .. 23 |-> 5000]
HighDemand == [h \in 0 .. 23 |-> 40000]

\* responses of the utility API, by the fields they hold
Responses ==
    { [has |-> {"prices", "demand", "competitors"},
       prices |-> HighPrices, demand |-> HighDemand, competitors |-> 12],
      [has |-> {"competitors"},
       prices |-> HighPrices, demand |-> HighDemand, competitors |-> 13],
      [has |-> {"prices", "demand"},
       prices |-> HighPrices, demand |-> HighDemand, competitors |-> 12] }

\* write_callback storing a parsed response whole: a field the response lacks
\* falls back to its start-up value
write_callback_reset(m, response) ==
    [ price_forecast       |-> IF "prices" \in response.has
                               THEN response.prices ELSE [h \in 0 .. 23 |-> 0],
      grid_demand_forecast |-> IF "demand" \in response.has
                               THEN response.demand ELSE [h \in 0 .. 23 |-> 0],
      num_competitors      |-> IF "competitors" \in response.has
                               THEN response.competitors ELSE 10 ]

\* write_callback, lines 60-98: each field that strstr finds in the data
\* overwrites its global; the other globals are not written
write_callback(m, response) ==
    [ price_forecast       |-> IF "prices" \in response.has
                               THEN response.prices ELSE m.price_forecast,
      grid_demand_forecast |-> IF "demand" \in response.has
                               THEN response.demand ELSE m.grid_demand_forecast,
      num_competitors      |-> IF "competitors" \in response.has
                               THEN response.competitors ELSE m.num_competitors ]

\* fetchMarketData: the transfer fails (no callback) or delivers a response
fetchMarketData(m) == {m} \cup {write_callback(m, r) : r \in Responses}

\* analyzeHistoricalData, line 414
AnalyzeBeta(strategy) == [strategy EXCEPT !.beta = 200]

\* analyzeHistoricalData, line 417
AnalyzeAlpha(strategy) == [strategy EXCEPT !.alpha = 300]

\* analyzeHistoricalData, line 420
AnalyzeMaxGridDemand(strategy) == [strategy EXCEPT !.max_grid_demand = 50000]

\* analyzeHistoricalData: three stores into dr_strategy, one after the other
analyzeHistoricalData(strategy) ==
    AnalyzeMaxGridDemand(AnalyzeAlpha(AnalyzeBeta(strategy)))

\* sorted_prices[5] of CapacityBidding: the 6th highest price
PeakThreshold(prices) ==
    CHOOSE v \in {prices[h] : h \in 0 .. 23} :
        /\ Cardinality({h \in 0 .. 23 : prices[h] > v}) <= 5
        /\ Cardinality({h \in 0 .. 23 : prices[h] >= v}) >= 6

\* the tasks running as soon as the market data is fetched, during
\* analyzeHistoricalData
RunningBeforeAnalysis == pc.main # "fetch"

\* a task runs once vTaskStartScheduler has been called (line 487)
Running == pc.main = "scheduler"

Goto(task, label) == pc' = [pc EXCEPT ![task] = label]

\* initSystem, line 473
MainFetch ==
    /\ pc.main = "fetch"
    /\ market' \in fetchMarketData(market)
    /\ Goto("main", "analyze")
    /\ UNCHANGED <<dr_strategy, libVars, dr_status, spoof, fdr, cbp, polls>>

\* initSystem, line 476: analyzeHistoricalData, a store at a time
MainAnalyze ==
    \/ /\ pc.main = "analyze"
       /\ dr_strategy' = AnalyzeBeta(dr_strategy)
       /\ Goto("main", "analyze_alpha")
       /\ UNCHANGED <<libVars, market, dr_status, spoof, fdr, cbp, polls>>
    \/ /\ pc.main = "analyze_alpha"
       /\ dr_strategy' = AnalyzeAlpha(dr_strategy)
       /\ Goto("main", "analyze_max_grid_demand")
       /\ UNCHANGED <<libVars, market, dr_status, spoof, fdr, cbp, polls>>
    \/ /\ pc.main = "analyze_max_grid_demand"
       /\ dr_strategy' = AnalyzeMaxGridDemand(dr_strategy)
       /\ Goto("main", "create_tasks")
       /\ UNCHANGED <<libVars, market, dr_status, spoof, fdr, cbp, polls>>

\* initSystem, lines 479-487: the tasks are created and the scheduler started
MainStartScheduler ==
    /\ pc.main = "create_tasks"
    /\ Goto("main", "scheduler")
    /\ UNCHANGED <<dr_strategy, libVars, market, dr_status, spoof, fdr, cbp, polls>>

\* The battery system raises a DR event in its status register 0x220.
DrEventSignalled ==
    /\ Running
    /\ dr_status = 0
    /\ dr_status' = 1
    /\ UNCHANGED <<dr_strategy, libVars, market, pc, spoof, fdr, cbp, polls>>

\* SpoofSOC, lines 133-160: read the registers, filter, compute the change
SpoofPoll ==
    /\ Running
    /\ pc.SpoofSOC = "poll"
    /\ polls < MaxPolls
    /\ \/ \* the SOC register cannot be read: delay and retry
          UNCHANGED <<spoof, pc, polls>>
       \/ \E actualSOC \in SocReadings, batteryTemp \in BmsTemperatures :
            LET readings == [spoof.socReadings EXCEPT
                                ![spoof.filterIndex] = actualSOC * 10]
                filteredSOC ==
                    RDiv(readings[0] + readings[1] + readings[2]
                           + readings[3] + readings[4], 5)
            IN  /\ spoof' = [spoof EXCEPT
                                !.socReadings = readings,
                                !.filterIndex = (@ + 1) % 5,
                                !.batteryTemp = batteryTemp,
                                !.filteredSOC = filteredSOC,
                                !.socChange = fabs(filteredSOC - spoof.previousSOC)]
                /\ Goto("SpoofSOC", "write_soc")
                /\ polls' = polls + 1
    /\ UNCHANGED <<dr_strategy, libVars, market, dr_status, fdr, cbp>>

\* SpoofSOC, lines 163-166
SpoofWriteSoc ==
    /\ Running
    /\ pc.SpoofSOC = "write_soc"
    /\ dr_strategy' = [dr_strategy EXCEPT !.current_soc = spoof.filteredSOC]
    /\ Goto("SpoofSOC", IF spoof.socChange > 10 THEN "add_cycle_store" ELSE "latch")
    /\ UNCHANGED <<libVars, market, dr_status, spoof, fdr, cbp, polls>>

\* SpoofSOC, lines 168-173, in add_rainflow_cycle lines 60-71
SpoofAddCycleStore ==
    /\ Running
    /\ pc.SpoofSOC = "add_cycle_store"
    /\ dr_strategy' =
          add_rainflow_cycle_store(dr_strategy, spoof.socChange,
                                   RDiv(spoof.filteredSOC + spoof.previousSOC, 2),
                                   spoof.batteryTemp)
    /\ Goto("SpoofSOC", "add_cycle_count")
    /\ UNCHANGED <<libVars, market, dr_status, spoof, fdr, cbp, polls>>

\* SpoofSOC in add_rainflow_cycle lines 73-76, then line 176
SpoofAddCycleCount ==
    /\ Running
    /\ pc.SpoofSOC = "add_cycle_count"
    /\ dr_strategy' = add_rainflow_cycle_count(dr_strategy, spoof.socChange)
    /\ spoof' = [spoof EXCEPT !.previousSOC = spoof.filteredSOC]
    /\ Goto("SpoofSOC", "latch")
    /\ UNCHANGED <<libVars, market, dr_status, fdr, cbp, polls>>

\* SpoofSOC, lines 180-211: the minimum SOC safety latch
SpoofLatch ==
    /\ Running
    /\ pc.SpoofSOC = "latch"
    /\ dr_status' = IF dr_strategy.current_soc < dr_strategy.min_soc
                    THEN 0 ELSE dr_status
    /\ Goto("SpoofSOC", "poll")
    /\ UNCHANGED <<dr_strategy, libVars, market, spoof, fdr, cbp, polls>>

\* FastDRDispatch, lines 223-240
FdrStart ==
    /\ Running
    /\ pc.FastDRDispatch = "start"
    /\ \E current_hour \in ClockHours, read_ok \in BOOLEAN :
          LET active == IF read_ok THEN dr_status > 0
                        ELSE fdr.isDemandResponseActive
          IN  /\ fdr' = [fdr EXCEPT
                            !.current_market_price = market.price_forecast[current_hour],
                            !.current_grid_demand =
                                market.grid_demand_forecast[current_hour],
                            !.isDemandResponseActive = active]
              /\ Goto("FastDRDispatch", IF active THEN "call" ELSE "start")
    /\ UNCHANGED <<dr_strategy, libVars, market, dr_status, spoof, cbp, polls>>

\* FastDRDispatch, lines 241-243: the calculate_fast_dr_bid call.  The SOC
\* it read at demand_response.c:136 is kept with the bid.
FdrCall ==
    /\ Running
    /\ pc.FastDRDispatch = "call"
    /\ \E hour_of_day \in ClockHours :
          LET out == calculate_fast_dr_bid(dr_strategy, fdr.current_market_price,
                                           fdr.current_grid_demand, 1000, hour_of_day)
          IN  fdr' = [fdr EXCEPT !.current_soc = dr_strategy.current_soc,
                                 !.bid_capacity = out.bid_capacity,
                                 !.bid_price = out.bid_price]
    /\ Goto("FastDRDispatch", "submit")
    /\ UNCHANGED <<dr_strategy, libVars, market, dr_status, spoof, cbp, polls>>

\* the submit test of FastDRDispatch and CapacityBidding passing a capacity of 0
SubmitsBidOrZero(bid_capacity) == bid_capacity >= 0

\* the submit test passing every capacity other than 0
SubmitsBidNonZero(bid_capacity) == bid_capacity # 0

\* the test that guards a submission: FastDRDispatch line 248, CapacityBidding
\* line 328
SubmitsBid(bid_capacity) == bid_capacity > 0

\* FastDRDispatch, lines 245-248 and 270-275: the bid is submitted when its
\* capacity passes the test; otherwise it goes out of scope
FdrSubmit ==
    /\ Running
    /\ pc.FastDRDispatch = "submit"
    /\ IF SubmitsBid(fdr.bid_capacity)
       THEN /\ Goto("FastDRDispatch", "post")
            /\ UNCHANGED fdr
       ELSE /\ Goto("FastDRDispatch", "start")
            /\ fdr' = [fdr EXCEPT !.bid_capacity = 0, !.bid_price = 0,
                                  !.current_soc = 0]
    /\ UNCHANGED <<dr_strategy, libVars, market, dr_status, spoof, cbp, polls>>

\* FastDRDispatch, lines 249-269: the discharge rate is written to register
\* 0x210 and the bid is posted (neither is read back by the tasks); the bid
\* then goes out of scope
FdrPost ==
    /\ Running
    /\ pc.FastDRDispatch = "post"
    /\ fdr' = [fdr EXCEPT !.bid_capacity = 0, !.bid_price = 0, !.current_soc = 0]
    /\ Goto("FastDRDispatch", "start")
    /\ UNCHANGED <<dr_strategy, libVars, market, dr_status, spoof, cbp, polls>>

\* CapacityBidding, lines 286-292: at 2:00 the market data is fetched
CbpFetch ==
    /\ Running
    /\ pc.CapacityBidding = "wait"
    /\ market' \in fetchMarketData(market)
    /\ Goto("CapacityBidding", "peaks")
    /\ UNCHANGED <<dr_strategy, libVars, dr_status, spoof, fdr, cbp, polls>>

\* CapacityBidding, lines 296-316
CbpPeaks ==
    /\ Running
    /\ pc.CapacityBidding = "peaks"
    /\ cbp' = [cbp EXCEPT !.expected_peak_hours =
                  LET peak_threshold == PeakThreshold(market.price_forecast)
                  IN  [i \in 0 .. 23 |->
                          IF market.price_forecast[i] >= peak_threshold
                          THEN 1 ELSE 0]]
    /\ Goto("CapacityBidding", "call")
    /\ UNCHANGED <<dr_strategy, libVars, market, dr_status, spoof, fdr, polls>>

\* CapacityBidding, lines 319-323: the calculate_cbp_strategy call
CbpCall ==
    /\ Running
    /\ pc.CapacityBidding = "call"
    /\ LET out == calculate_cbp_strategy(dr_strategy, market.price_forecast,
                                         cbp.expected_peak_hours, 24)
       IN  cbp' = [cbp EXCEPT !.bid_capacities = out.bid_capacities,
                              !.bid_prices = out.bid_prices]
    /\ Goto("CapacityBidding", "submit")
    /\ UNCHANGED <<dr_strategy, libVars, market, dr_status, spoof, fdr, polls>>

\* CapacityBidding, lines 326-328: the hours whose bid passes the test
CbpSubmit ==
    /\ Running
    /\ pc.CapacityBidding = "submit"
    /\ cbp' = [cbp EXCEPT !.posted_hours =
                  {hour \in 0 .. 23 : SubmitsBid(cbp.bid_capacities[hour])}]
    /\ Goto("CapacityBidding", "post")
    /\ UNCHANGED <<dr_strategy, libVars, market, dr_status, spoof, fdr, polls>>

\* CapacityBidding, lines 329-349: the bids of those hours are posted; the
\* bids then go out of scope
CbpPost ==
    /\ Running
    /\ pc.CapacityBidding = "post"
    /\ cbp' = [cbp EXCEPT !.bid_capacities = [h \in 0 .. 23 |-> 0],
                          !.bid_prices = [h \in 0 .. 23 |-> 0],
                          !.posted_hours = {}]
    /\ Goto("CapacityBidding", "wait")
    /\ UNCHANGED <<dr_strategy, libVars, market, dr_status, spoof, fdr, polls>>

\* MarketDataUpdate, lines 360-370: the hourly fetch
MduFetch ==
    /\ Running
    /\ pc.MarketDataUpdate = "wait"
    /\ market' \in fetchMarketData(market)
    /\ UNCHANGED <<dr_strategy, libVars, dr_status, pc, spoof, fdr, cbp, polls>>

TaskNext ==
    \/ MainFetch
    \/ MainAnalyze
    \/ MainStartScheduler
    \/ DrEventSignalled
    \/ SpoofPoll
    \/ SpoofWriteSoc
    \/ SpoofAddCycleStore
    \/ SpoofAddCycleCount
    \/ SpoofLatch
    \/ FdrStart
    \/ FdrCall
    \/ FdrSubmit
    \/ FdrPost
    \/ CbpFetch
    \/ CbpPeaks
    \/ CbpCall
    \/ CbpSubmit
    \/ CbpPost
    \/ MduFetch

SpecTasks == Init /\ [][TaskNext]_vars

(***************************************************************************)
(* Properties of the running tasks (specification SpecTasks)               *)
(***************************************************************************)
\* C7: every bid produced by calculate_fast_dr_bid or calculate_cbp_strategy,
\* in any state the program reaches, has capacity >= 0 and price >= 0.
C7_BidsNonNegative ==
    /\ pc.FastDRDispatch = "submit"
          => fdr.bid_capacity >= 0 /\ fdr.bid_price >= 0
    /\ pc.CapacityBidding = "submit"
          => \A h \in 0 .. 23 :
                cbp.bid_capacities[h] >= 0 /\ cbp.bid_prices[h] >= 0

\* C9: current_soc, cycle_count and the cycle log change only in a step of
\* update_state_of_charge or add_rainflow_cycle.
C9_BatteryStateFrame ==
    [][(\/ dr_strategy'.current_soc # dr_strategy.current_soc
        \/ dr_strategy'.cycle_count # dr_strategy.cycle_count
        \/ dr_strategy'.cycle_count_index # dr_strategy.cycle_count_index
        \/ dr_strategy'.cycles # dr_strategy.cycles)
       => \/ /\ last' # last
             /\ last'.op \in {"update_state_of_charge", "add_rainflow_cycle"}
          \/ pc.SpoofSOC \in {"add_cycle_store", "add_cycle_count"}]_vars

\* C10: no task reads or writes dr_strategy while another task is in the
\* middle of reading or mutating it: the bidding calls of FastDRDispatch and
\* CapacityBidding never run while SpoofSOC stands between its write of
\* current_soc and the end of its add_rainflow_cycle call.
C10_StrategyAccessSerialized ==
    [][(\/ pc.FastDRDispatch = "call" /\ pc'.FastDRDispatch = "submit"
        \/ pc.CapacityBidding = "call" /\ pc'.CapacityBidding = "submit")
       => pc.SpoofSOC \notin {"add_cycle_store", "add_cycle_count"}]_vars

\* the market parameters of the strategy
MarketParams(strategy) ==
    <<strategy.risk_factor, strategy.alpha, strategy.beta, strategy.max_grid_demand>>

\* a task stands in or after its bidding call, with a bid in hand
BidInProgress ==
    \/ pc.FastDRDispatch \in {"call", "submit"}
    \/ pc.CapacityBidding \in {"call", "submit"}

\* C11: the market parameters are never written while a bid calculation is
\* in progress: whenever a task stands at a bidding call, analyzeHistoricalData
\* has completed (no partial parameter set), and no step taken from then on
\* writes a market parameter.
C11_MarketParamsStable ==
    [][/\ BidInProgress' => pc'.main = "scheduler"
       /\ BidInProgress =>
            /\ pc'.main = pc.main
            /\ MarketParams(dr_strategy') = MarketParams(dr_strategy)]_vars

\* analyzeHistoricalData has run and FastDRDispatch has computed a bid
C11_Witness ==
    /\ pc.main = "scheduler"
    /\ pc.FastDRDispatch = "submit"
    /\ fdr.bid_capacity > 0
    /\ MarketParams(dr_strategy) = <<500, 300, 200, 50000>>

\* C20: the peak mask derived from the price forecast marks exactly the 6
\* highest-priced hours, ties going to the earliest hour: it has exactly 6
\* set entries.
C20_PeakMaskTopSix ==
    [][(pc.CapacityBidding = "peaks" /\ pc'.CapacityBidding = "call") =>
        LET prices == market.price_forecast
            mask == cbp'.expected_peak_hours
            Before(h) == {g \in 0 .. 23 :
                            \/ prices[g] > prices[h]
                            \/ prices[g] = prices[h] /\ g < h}
        IN  /\ \A h \in 0 .. 23 : (mask[h] = 1) <=> (Cardinality(Before(h)) < 6)
            /\ Cardinality({h \in 0 .. 23 : mask[h] = 1}) = 6]_vars

(***************************************************************************)
(* src/demand_response.c driven by a caller that constructs the instance    *)
(* with arguments of its choice, passes forecasts with a length of its      *)
(* choice, and whose allocations can fail (specification SpecApi).  The     *)
(* functions return void: `returned` is "void" when the call came back and  *)
(* "fault" when the process died in it.                                     *)
(***************************************************************************)
\* the instance after 1000 calls add_rainflow_cycle(1.0, 0.5, 25.0): the
\* cycle array is full
FullLog ==
    LET fresh == DemandResponseStrategy_init(6500, 950)
    IN  [fresh EXCEPT
            !.cycles = [i \in 1 .. fresh.cycle_array_size |->
                           [depth |-> 1000, mean_soc |-> 500, temperature |-> 250]],
            !.cycle_count_index = fresh.cycle_array_size,
            !.cycle_count = fresh.cycle_array_size]

\* battery_capacity (Wh) and efficiency (thousandths) given to the constructor:
\* valid, zero capacity, efficiency of 1.5
ConstructorArgs == {<<6500, 950>>, <<0, 950>>, <<6500, 1500>>}

\* num_hours given to calculate_capacity_allocation and calculate_cbp_strategy
\* with arrays of 24 entries.  More than 24 indexes the 24-entry locals
\* expected_revenue and capacity_factors past their end and is left out.
NumHours == {12, 24}

ApiPrices == {HighPrices, PeakPrices}

\* add_rainflow_cycle with its allocation: what the call can do to the
\* instance.  When the array is full realloc succeeds or returns NULL (line
\* 63); NULL is stored in strategy->cycles, the old block is lost.  The
\* stores of lines 68-71 through a NULL pointer are undefined: the process
\* faults, or the stores land in low memory and the call goes on to the
\* counter.
add_rainflow_cycle_outcomes(strategy, depth, mean_soc, temperature) ==
    LET grow == strategy.cycle_count_index >= strategy.cycle_array_size
        success(st) ==
            [strategy |-> add_rainflow_cycle(st, depth, mean_soc, temperature),
             returned |-> "void"]
        lost == [strategy EXCEPT
                    !.cycle_array_size = IF grow THEN @ * 2 ELSE @,
                    !.cycles_null = TRUE,
                    !.cycles = << >>]
        through_null ==
            { [strategy |-> lost, returned |-> "fault"],
              [strategy |-> add_rainflow_cycle_count(lost, depth),
               returned |-> "void"] }
    IN  IF grow
        THEN {success([strategy EXCEPT !.cycles_null = FALSE])} \cup through_null
        ELSE IF strategy.cycles_null THEN through_null ELSE {success(strategy)}

InitApi ==
    /\ dr_strategy \in {DemandResponseStrategy_init(6500, 950), FullLog}
    /\ last = NoCall
    /\ calls = 0
    /\ TaskInit

\* the process has not faulted
Alive == IF last.op = "init" THEN TRUE ELSE last.returned # "fault"

\* DemandResponseStrategy_init; the malloc of line 30 succeeds or returns NULL
Construct(battery_capacity, efficiency, allocated) ==
    /\ Alive
    /\ calls < MaxCalls
    /\ dr_strategy' = [DemandResponseStrategy_init(battery_capacity, efficiency)
                          EXCEPT !.cycles_null = ~allocated]
    /\ last' = [op |-> "DemandResponseStrategy_init",
                args |-> <<battery_capacity, efficiency>>,
                returned |-> "void"]
    /\ calls' = calls + 1
    /\ UNCHANGED taskVars

AddCycleAlloc(depth, mean_soc, temperature) ==
    /\ Alive
    /\ calls < MaxCalls
    /\ \E outcome \in add_rainflow_cycle_outcomes(dr_strategy, depth, mean_soc,
                                                  temperature) :
          /\ dr_strategy' = outcome.strategy
          /\ last' = [op |-> "add_rainflow_cycle", depth |-> depth,
                      returned |-> outcome.returned]
    /\ calls' = calls + 1
    /\ UNCHANGED taskVars

\* calculate_capacity_allocation; out holds the entries of capacity_factors
\* it wrote
CapacityAllocation(day_ahead_prices, peak_hours, num_hours) ==
    /\ Alive
    /\ calls < MaxCalls
    /\ last' = [op |-> "calculate_capacity_allocation",
                args |-> <<day_ahead_prices, peak_hours>>,
                num_hours |-> num_hours,
                out |-> calculate_capacity_allocation(day_ahead_prices, peak_hours,
                                                      num_hours),
                returned |-> "void"]
    /\ calls' = calls + 1
    /\ UNCHANGED <<dr_strategy, taskVars>>

\* calculate_cbp_strategy; out holds the entries of bid_capacities and
\* bid_prices it wrote.  An instance of capacity 0 divides by zero (line 226)
\* and is left out.
CbpStrategyHours(day_ahead_prices, expected_peak_hours, num_hours) ==
    /\ Alive
    /\ calls < MaxCalls
    /\ dr_strategy.battery_capacity > 0
    /\ last' = [op |-> "calculate_cbp_strategy",
                args |-> <<day_ahead_prices, expected_peak_hours>>,
                num_hours |-> num_hours,
                out |-> calculate_cbp_strategy(dr_strategy, day_ahead_prices,
                                               expected_peak_hours, num_hours),
                returned |-> "void"]
    /\ calls' = calls + 1
    /\ UNCHANGED <<dr_strategy, taskVars>>

\* a forecast of negative prices (-0.05 $/kWh in every hour)
NegativePrices == [h \in 0 .. 23 |-> -500]

\* price_forecast and forecast_hours given to calculate_opportunity_cost
ApiForecasts == {HighPrices, PeakPrices, NegativePrices}
ForecastHours == {0, 1, 24}

\* depth_of_discharge (thousandths) given to calculate_degradation_cost: two
\* negative depths, zero, and two depths a bid can have
DepthValues == {-400, -100, 0, 400, 800}

\* calculate_opportunity_cost
OpportunityCost(price_forecast, forecast_hours) ==
    /\ Alive
    /\ calls < MaxCalls
    /\ last' = [op |-> "calculate_opportunity_cost",
                args |-> <<price_forecast>>,
                forecast_hours |-> forecast_hours,
                out |-> calculate_opportunity_cost(price_forecast, forecast_hours),
                returned |-> "void"]
    /\ calls' = calls + 1
    /\ UNCHANGED <<dr_strategy, taskVars>>

\* calculate_degradation_cost.  An instance of capacity 0 divides by zero
\* (line 52) and is left out.
DegradationCost(depth_of_discharge) ==
    /\ Alive
    /\ calls < MaxCalls
    /\ dr_strategy.battery_capacity > 0
    /\ last' = [op |-> "calculate_degradation_cost",
                depth_of_discharge |-> depth_of_discharge,
                out |-> calculate_degradation_cost(dr_strategy, depth_of_discharge),
                returned |-> "void"]
    /\ calls' = calls + 1
    /\ UNCHANGED <<dr_strategy, taskVars>>

NextApi ==
    \/ \E a \in ConstructorArgs, allocated \in BOOLEAN : Construct(a[1], a[2], allocated)
    \/ \E c \in CycleValues : AddCycleAlloc(c[1], c[2], c[3])
    \/ \E p \in ApiPrices, m \in PeakMasks, n \in NumHours : CapacityAllocation(p, m, n)
    \/ \E p \in ApiPrices, m \in PeakMasks, n \in NumHours : CbpStrategyHours(p, m, n)

SpecApi == InitApi /\ [][NextApi]_vars

\* the cost functions called on instances the caller constructed
NextCost ==
    \/ \E a \in ConstructorArgs, allocated \in BOOLEAN : Construct(a[1], a[2], allocated)
    \/ \E f \in ApiForecasts, n \in ForecastHours : OpportunityCost(f, n)
    \/ \E d \in DepthValues : DegradationCost(d)

SpecCost == InitApi /\ [][NextCost]_vars

(***************************************************************************)
(* Properties of the calls (specification SpecApi)                         *)
(***************************************************************************)
\* C12: a construction with invalid arguments (capacity <= 0 or efficiency
\* outside (0, 1]) fails with a ConfigurationError and produces no instance.
C12_InvalidConstructionFails ==
    [][(/\ last'.op = "DemandResponseStrategy_init"
        /\ last' # last
        /\ \/ last'.args[1] <= 0
           \/ last'.args[2] <= 0
           \/ last'.args[2] > 1000)
       => /\ last'.returned = "ConfigurationError"
          /\ dr_strategy' = dr_strategy]_vars

\* C13: a calculate_cbp_strategy or calculate_capacity_allocation call with
\* num_hours # 24 returns an InputError and writes no entry of its output
\* arrays.
C13_WrongLengthRejected ==
    (/\ last.op \in {"calculate_cbp_strategy", "calculate_capacity_allocation"}
     /\ last.num_hours # 24)
    => /\ last.returned = "InputError"
       /\ IF last.op = "calculate_cbp_strategy"
          THEN /\ DOMAIN last.out.bid_capacities = {}
               /\ DOMAIN last.out.bid_prices = {}
          ELSE DOMAIN last.out = {}

\* C14: when the growth of the cycle log fails in add_rainflow_cycle, the
\* failure is surfaced to the caller and cycle_count still grows by the depth.
C14_GrowthFailureSurfaced ==
    [][(/\ last'.op = "add_rainflow_cycle"
        /\ last' # last \/ dr_strategy' # dr_strategy
        /\ dr_strategy.cycle_count_index >= dr_strategy.cycle_array_size
        /\ dr_strategy'.cycles_null)
       => /\ last'.returned = "AllocationError"
          /\ dr_strategy'.cycle_count * 1000
                = dr_strategy.cycle_count * 1000 + last'.depth]_vars

\* C17: for every hour h the CBP bid price is
\* max(day_ahead_prices[h] * (1 + markup), mc_h * (1 + cost_up)), with
\* (markup, cost_up) = (0.15, 0.20) for a peak hour and (0.05, 0.10) otherwise,
\* mc_h being the marginal cost computed with h as the hour of day; so the
\* price is at least mc_h * (1 + cost_up).
C17_CbpPriceFloor ==
    (last.op = "calculate_cbp_strategy" /\ last.num_hours = 24) =>
        \A h \in 0 .. 23 :
            LET day_ahead_prices == last.args[1]
                peak == last.args[2][h] # 0
                markup == IF peak THEN 150 ELSE 50
                cost_up == IF peak THEN 200 ELSE 100
                mc_h == CalculateMarginalCost(
                            dr_strategy, h,
                            RDiv(last.out.bid_capacities[h] * 1000,
                                 dr_strategy.battery_capacity),
                            calculate_opportunity_cost(
                                [i \in 0 .. 23 |-> day_ahead_prices[(h + i) % 24]],
                                24))
                floor == RDiv(mc_h * (1000 + cost_up), 1000)
            IN  /\ last.out.base_costs[h] = mc_h
                /\ last.out.bid_prices[h]
                      = fmax(RDiv(day_ahead_prices[h] * (1000 + markup), 1000), floor)
                /\ last.out.bid_prices[h] >= floor

\* a CBP call on a valid instance in which the cost floor sets the price of
\* one hour (a depressed market price) and the market price that of another
C17_Witness ==
    /\ last.op = "calculate_cbp_strategy"
    /\ last.num_hours = 24
    /\ dr_strategy.efficiency = 950
    /\ \E h \in 0 .. 23 :
          /\ last.args[2][h] # 0
          /\ last.out.bid_prices[h] > RDiv(last.args[1][h] * 1150, 1000)
    /\ \E h \in 0 .. 23 :
          /\ last.args[2][h] = 0
          /\ last.out.bid_prices[h] = RDiv(last.args[1][h] * 1050, 1000)
          /\ last.out.bid_prices[h] > RDiv(last.out.base_costs[h] * 1100, 1000)

MaxOf(S) == CHOOSE v \in S : \A w \in S : w <= v

\* C24: calculate_opportunity_cost returns half of the maximum over i of
\* price_forecast[i] * 0.9^i for every non-empty forecast, and 0 for an
\* empty one.
C24_HalfOfBestDiscountedPrice ==
    last.op = "calculate_opportunity_cost" =>
        IF last.forecast_hours = 0
        THEN last.out = 0
        ELSE last.out
               = RDiv(MaxOf({RDiv(last.args[1][i] * DiscountTable[i], 10000) :
                               i \in 0 .. last.forecast_hours - 1}) * 5, 10)

\* C25: calculate_degradation_cost returns 0 for every depth of discharge
\* <= 0, zero and negative alike.
C25_NonPositiveDepthCostsNothing ==
    (last.op = "calculate_degradation_cost" /\ last.depth_of_discharge <= 0)
        => last.out = 0

\* C26: the cycle log starts with capacity 1000 and doubles when full; the
\* number of logged cycles stays between 0 and the capacity, every append
\* writes below the capacity, and the records appended before stay in the log
\* unmodified.
C26_LogAppendOnly ==
    [][/\ dr_strategy'.cycle_count_index >= 0
       /\ dr_strategy'.cycle_count_index <= dr_strategy'.cycle_array_size
       /\ (last'.op = "DemandResponseStrategy_init" /\ calls' = calls + 1)
             => /\ dr_strategy'.cycle_array_size = 1000
                /\ dr_strategy'.cycle_count_index = 0
       /\ (last'.op = "add_rainflow_cycle" /\ calls' = calls + 1)
             => LET index == dr_strategy.cycle_count_index
                    size == dr_strategy.cycle_array_size
                IN  /\ dr_strategy'.cycle_array_size
                          = IF index >= size THEN 2 * size ELSE size
                    /\ dr_strategy'.cycle_count_index > index
                          => index < dr_strategy'.cycle_array_size
                    /\ \A i \in 1 .. index :
                          i \in DOMAIN dr_strategy.cycles
                             => /\ i \in DOMAIN dr_strategy'.cycles
                                /\ dr_strategy'.cycles[i] = dr_strategy.cycles[i]]_vars

(***************************************************************************)
(* Further properties of the library calls (specification Spec)            *)
(***************************************************************************)
\* the SOC an update_state_of_charge call asks for, before the clamp
RequestedSoc(strategy, energy_delivered_kwh) ==
    strategy.current_soc
        - RDiv(energy_delivered_kwh * 1000, strategy.battery_capacity)

\* C23: update_state_of_charge(e) leaves current_soc at prev - e/capacity
\* clamped to [min_soc, max_soc] (a positive e never raises the SOC, a
\* negative e never lowers it), and a cycle it records has the depth
\* |prev - clamped SOC| and the mean SOC (prev + clamped SOC)/2.
C23_ClampedMoveRecorded ==
    [][last'.op = "update_state_of_charge" /\ calls' = calls + 1 =>
        LET prev == dr_strategy.current_soc
            soc == dr_strategy'.current_soc
            requested == RequestedSoc(dr_strategy, last'.energy)
            index == dr_strategy.cycle_count_index
        IN  /\ requested < dr_strategy.min_soc => soc = dr_strategy.min_soc
            /\ requested > dr_strategy.max_soc => soc = dr_strategy.max_soc
            /\ requested >= dr_strategy.min_soc /\ requested <= dr_strategy.max_soc
                  => soc = requested
            /\ last'.energy > 0 => soc <= prev
            /\ last'.energy < 0 => soc >= prev
            /\ dr_strategy'.cycle_count_index \in {index, index + 1}
            /\ dr_strategy'.cycle_count_index = index + 1 =>
                  /\ dr_strategy'.cycles[index + 1].depth = fabs(prev - soc)
                  /\ dr_strategy'.cycles[index + 1].mean_soc = RDiv(prev + soc, 2)]_vars

\* 10 kWh asked of the 6.5 kWh battery at SOC 0.5: the SOC stopped at min_soc
\* and the cycle recorded is the 0.4 applied, not the 1.538 requested
C23_Witness ==
    /\ last.op = "update_state_of_charge"
    /\ last.energy = 10000
    /\ dr_strategy.current_soc = dr_strategy.min_soc
    /\ dr_strategy.cycle_count_index = 1
    /\ dr_strategy.cycles[1].depth = 400
    /\ dr_strategy.cycles[1].mean_soc = 300

\* C27: the output of calculate_cbp_strategy does not depend on current_soc,
\* cycle_count or the cycle log: whatever these are, the 24 bids are those
\* computed for the instance as constructed, and the 24 bid capacities total
\* battery_capacity * (max_soc - min_soc) (here to within the rounding of 24
\* capacities), also when current_soc = min_soc.
C27_CbpIndependentOfCharge ==
    IsCbp =>
        LET constructed == DemandResponseStrategy_init(dr_strategy.battery_capacity,
                                                       dr_strategy.efficiency)
            bids == calculate_cbp_strategy(constructed, last.args[1], last.args[2], 24)
            total == RDiv(dr_strategy.battery_capacity
                            * (dr_strategy.max_soc - dr_strategy.min_soc), 1000)
        IN  /\ last.out.bid_capacities = bids.bid_capacities
            /\ last.out.bid_prices = bids.bid_prices
            /\ fabs(SumTo(last.out.bid_capacities, 24) - total) <= 24

\* a CBP call on a battery discharged to min_soc, with a cycle in its log:
\* the capacities still total the whole usable energy (5.2 kWh)
C27_Witness ==
    /\ IsCbp
    /\ dr_strategy.current_soc = dr_strategy.min_soc
    /\ dr_strategy.cycle_count_index > 0
    /\ dr_strategy.cycle_count > 0
    /\ SumTo(last.out.bid_capacities, 24) > 5000

(***************************************************************************)
(* Further properties of the running tasks (specification SpecTasks)       *)
(***************************************************************************)
\* C21: a zero-capacity bid is never submitted: FastDRDispatch writes the
\* discharge rate and posts its bid only with a capacity > 0, and
\* CapacityBidding posts only the hours whose capacity is > 0.
C21_NoZeroCapacitySubmitted ==
    /\ pc.FastDRDispatch = "post" => fdr.bid_capacity > 0
    /\ pc.CapacityBidding = "post"
          => \A h \in cbp.posted_hours : cbp.bid_capacities[h] > 0

\* FastDRDispatch computed a rejected bid (0, 0) and did not post it
C21_Witness ==
    /\ pc.FastDRDispatch = "submit"
    /\ fdr.isDemandResponseActive
    /\ fdr.bid_capacity = 0
    /\ ~ENABLED (pc' = [pc EXCEPT !["FastDRDispatch"] = "post"] /\ FdrSubmit)

\* C22: a market-data response without a field (prices, demand or
\* competitors) leaves the stored value of that field as it was; only the
\* fields the response holds are overwritten.
C22_MissingFieldsKept ==
    [][market' # market =>
        \E r \in Responses :
            /\ market'.price_forecast =
                  IF "prices" \in r.has THEN r.prices ELSE market.price_forecast
            /\ market'.grid_demand_forecast =
                  IF "demand" \in r.has THEN r.demand ELSE market.grid_demand_forecast
            /\ market'.num_competitors =
                  IF "competitors" \in r.has THEN r.competitors
                  ELSE market.num_competitors]_vars

\* a response holding only the competitors came after a full one: the
\* forecasts of the full response are still stored
C22_Witness ==
    /\ market.num_competitors = 13
    /\ market.price_forecast = HighPrices
    /\ market.grid_demand_forecast = HighDemand

\* C28: FastDRDispatch submits a bid only if the current_soc read by its
\* calculate_fast_dr_bid call was strictly greater than min_soc, also when
\* the call ran between SpoofSOC's write of a SOC below the minimum and its
\* disabling of DR events.
C28_SubmitOnlyAboveMinSoc ==
    [][pc'.FastDRDispatch = "post" =>
        fdr'.current_soc > dr_strategy'.min_soc]_vars

\* FastDRDispatch computed a bid from a SOC below the minimum that SpoofSOC
\* had written but not yet acted on (DR events still enabled)
C28_Witness ==
    /\ pc.FastDRDispatch = "submit"
    /\ fdr.current_soc < dr_strategy.min_soc
    /\ fdr.bid_capacity < 0
    /\ pc.SpoofSOC \in {"add_cycle_store", "add_cycle_count", "latch"}
    /\ dr_status > 0

====
